---- MODULE Spec2Model ----
(***************************************************************************)
(* Model of the job search of tw-frontend: the stored procedure            *)
(* search_jobs (supabase/migrations/20250101000004_create_search_function  *)
(* .sql) evaluated over a jobs/companies dataset, and the JobLayout /      *)
(* useJobPagination state machine that issues the search requests.         *)
(***************************************************************************)
EXTENDS Integers, Sequences, FiniteSets, TLC

\* ------------------------------------------------------------------ bounds
MaxJobs == 3        \* rows of the jobs table
MaxTime == 2        \* created_at / p_date_from / p_date_to range over 1..MaxTime
MaxLimit == 3       \* an explicit p_limit ranges over 0..MaxLimit
MaxOffset == 2      \* an explicit p_offset of a first call ranges over 1..MaxOffset

\* ------------------------------------------------------- SQL values, enums
\* An argument of search_jobs is <<>> when the caller does not pass it (its
\* DEFAULT applies, NULL for the filters) and <<v>> when the caller passes v.
NULL == <<>>
Val(v) == <<v>>

language_enum == {"english", "spanish"}
experience_level_enum == {"entry-level", "senior"}
employment_type_enum == {"full-time", "contractor"}
location_enum == {"costa-rica", "latam"}
work_mode_enum == {"remote", "onsite"}
province_enum == {"san-jose", "heredia"}
job_function_enum == {"technology-engineering", "product-management"}

\* ------------------------------------------------------------- text values
\* A TEXT value is a sequence of character codes (ASCII).
OpenAI == <<79, 112, 101, 110, 65, 73>>
openai == <<111, 112, 101, 110, 97, 105>>
OPENAI == <<79, 80, 69, 78, 65, 73>>
Acme == <<65, 99, 109, 101>>

LowerChar(c) == IF c >= 65 /\ c <= 90 THEN c + 32 ELSE c

\* LOWER(text)
LOWER(s) == [i \in 1..Len(s) |-> LowerChar(s[i])]

\* --------------------------------------------------------- full text search
\* A text search configuration (regconfig) removes its stop words and stems
\* the remaining words into lexemes.
StopWords(cfg) ==
    CASE cfg = "english" -> {"the"}
      [] cfg = "spanish" -> {"el"}

Stem(cfg, w) ==
    CASE cfg = "english" /\ w = "engineers" -> "engineer"
      [] cfg = "spanish" /\ w = "ingenieros" -> "ingenier"
      [] OTHER -> w

\* A query text is a sequence of tokens: words, and " " for a run of blanks.
\* plainto_tsquery(config, querytext): the AND of the lexemes of the words
\* that are no stop words, as the set of those lexemes.
plainto_tsquery(cfg, q) ==
    {Stem(cfg, q[i]) :
        i \in {k \in 1..Len(q) : q[k] # " " /\ q[k] \notin StopWords(cfg)}}

\* tsvector @@ tsquery: every lexeme of the query is in the vector; a query
\* with no lexemes matches no row.
TsMatch(vector, tsq) ==
    /\ tsq # {}
    /\ tsq \subseteq vector

\* ------------------------------------------------------------------ tables
\* companies: id -> name
companies == <<OpenAI, OPENAI, Acme>>

VARIABLES
    jobs,       \* the jobs table, in its natural row order; jobs[i].id = i
    call,       \* the arguments of the search_jobs call being made
    rows,       \* the rows that call returned
    pages       \* ids of the pages fetched since the latest first call, in order

\* JobLayout and useJobPagination
VARIABLES
    searchQuery,            \* JobLayout: text of the search box
    appliedSearchQuery,     \* JobLayout: query of the last search that succeeded
    filters,                \* useJobFilters: the filters object
    prevFiltersJsonRef,     \* JobLayout: <<>> for '', <<json>> otherwise
    urlP,                   \* URL search parameter 'p': NULL when absent
    apiJobs,                \* useJobSearch: ids of the jobs of the current page
    apiPagination,          \* useJobSearch: NULL or <<pagination metadata>>
    selectedJobId,          \* useJobPagination: NULL or <<id>>
    inflight,               \* search requests sent and not yet answered
    actions                 \* user actions so far: kind, requests caused, error caught

\* Calls of the exported helper functions
VARIABLES
    fnArgs,                 \* NULL or <<the function called and its arguments>>
    fnResult                \* NULL or <<what the call returned>>

dbvars == <<jobs, call, rows, pages>>
fnvars == <<fnArgs, fnResult>>
uivars == <<searchQuery, appliedSearchQuery, filters, prevFiltersJsonRef, urlP,
            apiJobs, apiPagination, selectedJobId, inflight, actions>>
vars == <<jobs, call, rows, pages, searchQuery, appliedSearchQuery, filters,
          prevFiltersJsonRef, urlP, apiJobs, apiPagination, selectedJobId,
          inflight, actions,
          fnArgs, fnResult>>

\* ------------------------------------------------------------- search_jobs
DefaultLimit == 20
DefaultOffset == 0
DefaultLanguage == "english"

\* The parameter values the body sees: the declared DEFAULT for an argument
\* that was not passed. The nine filters default to NULL and stay as passed.
Params(args) ==
    [args EXCEPT
        !.p_limit = IF @ = NULL THEN DefaultLimit ELSE @[1],
        !.p_offset = IF @ = NULL THEN DefaultOffset ELSE @[1],
        !.p_language = IF @ = NULL THEN DefaultLanguage ELSE @[1]]

\* (p IS NULL OR column = p)
FilterEq(p, column) == p = NULL \/ column = p[1]

\* Where with one conjunct dropped or changed (lines 80, 82, 84, 89, 90-91).
Where_NoActive(j, cname, p) ==
    /\ TsMatch(j.search_vector, plainto_tsquery(p.p_language, p.search_query))
    /\ j.language = p.p_language
    /\ FilterEq(p.p_experience_level, j.experience_level)
    /\ FilterEq(p.p_employment_type, j.employment_type)
    /\ FilterEq(p.p_location, j.location)
    /\ FilterEq(p.p_work_mode, j.work_mode)
    /\ FilterEq(p.p_province, j.province)
    /\ FilterEq(p.p_job_function, j.job_function)
    /\ (p.p_company = NULL \/ LOWER(cname) = LOWER(p.p_company[1]))
    /\ (p.p_date_from = NULL \/ j.created_at >= p.p_date_from[1])
    /\ (p.p_date_to = NULL \/ j.created_at <= p.p_date_to[1])

Where_NoLanguage(j, cname, p) ==
    /\ j.is_active = TRUE
    /\ TsMatch(j.search_vector, plainto_tsquery(p.p_language, p.search_query))
    /\ FilterEq(p.p_experience_level, j.experience_level)
    /\ FilterEq(p.p_employment_type, j.employment_type)
    /\ FilterEq(p.p_location, j.location)
    /\ FilterEq(p.p_work_mode, j.work_mode)
    /\ FilterEq(p.p_province, j.province)
    /\ FilterEq(p.p_job_function, j.job_function)
    /\ (p.p_company = NULL \/ LOWER(cname) = LOWER(p.p_company[1]))
    /\ (p.p_date_from = NULL \/ j.created_at >= p.p_date_from[1])
    /\ (p.p_date_to = NULL \/ j.created_at <= p.p_date_to[1])

Where_NoEmploymentType(j, cname, p) ==
    /\ j.is_active = TRUE
    /\ TsMatch(j.search_vector, plainto_tsquery(p.p_language, p.search_query))
    /\ j.language = p.p_language
    /\ FilterEq(p.p_experience_level, j.experience_level)
    /\ FilterEq(p.p_location, j.location)
    /\ FilterEq(p.p_work_mode, j.work_mode)
    /\ FilterEq(p.p_province, j.province)
    /\ FilterEq(p.p_job_function, j.job_function)
    /\ (p.p_company = NULL \/ LOWER(cname) = LOWER(p.p_company[1]))
    /\ (p.p_date_from = NULL \/ j.created_at >= p.p_date_from[1])
    /\ (p.p_date_to = NULL \/ j.created_at <= p.p_date_to[1])

Where_CompanyCaseSensitive(j, cname, p) ==
    /\ j.is_active = TRUE
    /\ TsMatch(j.search_vector, plainto_tsquery(p.p_language, p.search_query))
    /\ j.language = p.p_language
    /\ FilterEq(p.p_experience_level, j.experience_level)
    /\ FilterEq(p.p_employment_type, j.employment_type)
    /\ FilterEq(p.p_location, j.location)
    /\ FilterEq(p.p_work_mode, j.work_mode)
    /\ FilterEq(p.p_province, j.province)
    /\ FilterEq(p.p_job_function, j.job_function)
    /\ (p.p_company = NULL \/ cname = p.p_company[1])
    /\ (p.p_date_from = NULL \/ j.created_at >= p.p_date_from[1])
    /\ (p.p_date_to = NULL \/ j.created_at <= p.p_date_to[1])

Where_DateExclusive(j, cname, p) ==
    /\ j.is_active = TRUE
    /\ TsMatch(j.search_vector, plainto_tsquery(p.p_language, p.search_query))
    /\ j.language = p.p_language
    /\ FilterEq(p.p_experience_level, j.experience_level)
    /\ FilterEq(p.p_employment_type, j.employment_type)
    /\ FilterEq(p.p_location, j.location)
    /\ FilterEq(p.p_work_mode, j.work_mode)
    /\ FilterEq(p.p_province, j.province)
    /\ FilterEq(p.p_job_function, j.job_function)
    /\ (p.p_company = NULL \/ LOWER(cname) = LOWER(p.p_company[1]))
    /\ (p.p_date_from = NULL \/ j.created_at > p.p_date_from[1])
    /\ (p.p_date_to = NULL \/ j.created_at < p.p_date_to[1])

\* The WHERE clause for job row j joined with its company's name cname.
Where(j, cname, p) ==
    /\ j.is_active = TRUE
    /\ TsMatch(j.search_vector, plainto_tsquery(p.p_language, p.search_query))
    /\ j.language = p.p_language
    /\ FilterEq(p.p_experience_level, j.experience_level)
    /\ FilterEq(p.p_employment_type, j.employment_type)
    /\ FilterEq(p.p_location, j.location)
    /\ FilterEq(p.p_work_mode, j.work_mode)
    /\ FilterEq(p.p_province, j.province)
    /\ FilterEq(p.p_job_function, j.job_function)
    /\ (p.p_company = NULL \/ LOWER(cname) = LOWER(p.p_company[1]))
    /\ (p.p_date_from = NULL \/ j.created_at >= p.p_date_from[1])
    /\ (p.p_date_to = NULL \/ j.created_at <= p.p_date_to[1])

\* FROM jobs j JOIN companies c ON j.company_id = c.id ... WHERE: the indexes
\* of the job rows that survive the join and the WHERE clause.
Filtered(tbl, p) ==
    {i \in DOMAIN tbl :
        \E c \in DOMAIN companies :
            tbl[i].company_id = c /\ Where(tbl[i], companies[c], p)}

\* OrderBy sorting in ascending order (ORDER BY j.created_at ASC).
RECURSIVE OrderBy_Asc(_, _)
OrderBy_Asc(tbl, S) ==
    IF S = {} THEN {<<>>}
    ELSE UNION {{<<i>> \o o : o \in OrderBy_Asc(tbl, S \ {i})} :
                 i \in {m \in S : \A x \in S : tbl[m].created_at <= tbl[x].created_at}}

\* ORDER BY j.created_at DESC: the orders the executor may produce for the
\* rows S of tbl. The next row is any of the rows with the latest created_at
\* among those left: rows with equal created_at may come in any relative
\* order, on every call anew.
RECURSIVE OrderBy(_, _)
OrderBy(tbl, S) ==
    IF S = {} THEN {<<>>}
    ELSE UNION {{<<i>> \o o : o \in OrderBy(tbl, S \ {i})} :
                 i \in {m \in S : \A x \in S : tbl[m].created_at >= tbl[x].created_at}}

\* LimitOffset without the OFFSET.
LimitOffset_NoOffset(o, limit, offset) ==
    SubSeq(o, 1, IF limit < Len(o) THEN limit ELSE Len(o))

\* LIMIT p_limit OFFSET p_offset
LimitOffset(o, limit, offset) ==
    SubSeq(o, offset + 1, IF offset + limit < Len(o) THEN offset + limit ELSE Len(o))

\* COUNT(*) OVER(): the window is the whole filtered set, before LIMIT/OFFSET.
CountOver(S) == Cardinality(S)

\* The SELECT list for job row j.
Row(j, total) ==
    [id |-> j.id, company_id |-> j.company_id,
     experience_level |-> j.experience_level,
     employment_type |-> j.employment_type, location |-> j.location,
     province |-> j.province, work_mode |-> j.work_mode,
     job_function |-> j.job_function, language |-> j.language,
     is_active |-> j.is_active, created_at |-> j.created_at,
     company_name |-> companies[j.company_id], total_count |-> total]

\* search_jobs with the count taken over the page (after LIMIT/OFFSET).
search_jobs_CountPage(tbl, args) ==
    LET p == Params(args)
        S == Filtered(tbl, p)
    IN  {[k \in 1..Len(page) |-> Row(tbl[page[k]], Len(page))] :
            page \in {LimitOffset(o, p.p_limit, p.p_offset) : o \in OrderBy(tbl, S)}}

\* The results search_jobs(args) may return over table tbl.
search_jobs(tbl, args) ==
    LET p == Params(args)
        S == Filtered(tbl, p)
        total == CountOver(S)
    IN  {[k \in 1..Len(page) |-> Row(tbl[page[k]], total)] :
            page \in {LimitOffset(o, p.p_limit, p.p_offset) : o \in OrderBy(tbl, S)}}

\* ------------------------------------------------------- datasets and calls
BaseJob ==
    [company_id |-> 1, is_active |-> TRUE, language |-> "english",
     search_vector |-> {"engineer"}, experience_level |-> "senior",
     employment_type |-> "full-time", location |-> "costa-rica",
     work_mode |-> "remote", province |-> "san-jose",
     job_function |-> "technology-engineering"]

\* Job rows that differ from BaseJob in one column.
JobVariants ==
    {BaseJob,
     [BaseJob EXCEPT !.is_active = FALSE],
     [BaseJob EXCEPT !.language = "spanish"],
     [BaseJob EXCEPT !.search_vector = {"nurse"}],
     [BaseJob EXCEPT !.experience_level = "entry-level"],
     [BaseJob EXCEPT !.employment_type = "contractor"],
     [BaseJob EXCEPT !.location = "latam"],
     [BaseJob EXCEPT !.work_mode = "onsite"],
     [BaseJob EXCEPT !.province = "heredia"],
     [BaseJob EXCEPT !.job_function = "product-management"],
     [BaseJob EXCEPT !.company_id = 2],
     [BaseJob EXCEPT !.company_id = 3]}

Times == 1..MaxTime

\* A row of the jobs table: the columns of v with id i and created_at t.
JobRow(v, i, t) == v @@ [id |-> i, created_at |-> t]

\* The tables of n rows: row i has id i. Row 1 is any of JobVariants; rows
\* 2..n are BaseJob rows in ascending created_at, the reverse of the order
\* search_jobs asks for.
TablesOfLen(n) ==
    IF n = 0 THEN {<<>>}
    ELSE {[i \in 1..n |->
              IF i = 1 THEN JobRow(v, 1, t) ELSE JobRow(BaseJob, i, g[i - 1])] :
            v \in JobVariants, t \in Times,
            g \in {h \in [1..(n - 1) -> Times] :
                      \A i, k \in 1..(n - 1) : i < k => h[i] <= h[k]}}

Tables == UNION {TablesOfLen(n) : n \in 0..MaxJobs}

Opt(S) == {NULL} \cup {Val(v) : v \in S}

Queries == {<<"engineers">>, <<"the">>, <<"el", "engineer">>}

NoFilters ==
    [p_experience_level |-> NULL, p_employment_type |-> NULL,
     p_location |-> NULL, p_work_mode |-> NULL, p_province |-> NULL,
     p_job_function |-> NULL, p_company |-> NULL,
     p_date_from |-> NULL, p_date_to |-> NULL]

\* At most one of the seven equality filters ...
EqualityArgs ==
    {NoFilters}
    \cup {[NoFilters EXCEPT !.p_experience_level = Val(v)] : v \in experience_level_enum}
    \cup {[NoFilters EXCEPT !.p_employment_type = Val(v)] : v \in employment_type_enum}
    \cup {[NoFilters EXCEPT !.p_location = Val(v)] : v \in location_enum}
    \cup {[NoFilters EXCEPT !.p_work_mode = Val(v)] : v \in work_mode_enum}
    \cup {[NoFilters EXCEPT !.p_province = Val(v)] : v \in province_enum}
    \cup {[NoFilters EXCEPT !.p_job_function = Val(v)] : v \in job_function_enum}
    \cup {[NoFilters EXCEPT !.p_company = Val(v)] : v \in {OpenAI, openai, Acme}}

\* ... together with any lower date bound, or any date range alone.
FilterArgs ==
    {[f EXCEPT !.p_date_from = a] : f \in EqualityArgs, a \in Opt(Times)}
    \cup {[NoFilters EXCEPT !.p_date_from = a, !.p_date_to = b] :
              a \in Opt(Times), b \in Opt(Times)}

Args(q, lang, limit, offset, f) ==
    f @@ [search_query |-> q, p_language |-> lang, p_limit |-> limit,
          p_offset |-> offset]

\* Calls that vary the query text and the language.
TextCalls ==
    {Args(q, lang, NULL, NULL, NoFilters) :
        q \in Queries, lang \in Opt(language_enum)}

\* Calls that vary the filters.
FilterCalls == {Args(<<"engineers">>, NULL, NULL, NULL, f) : f \in FilterArgs}

\* Calls that vary the pagination, over all jobs or over the oldest ones.
PagingCalls ==
    {Args(<<"engineers">>, NULL, Val(limit), offset, f) :
        limit \in 0..MaxLimit, offset \in Opt(1..MaxOffset),
        f \in {NoFilters, [NoFilters EXCEPT !.p_date_to = Val(1)]}}

Calls == TextCalls \cup FilterCalls \cup PagingCalls

Ids(page) == [k \in 1..Len(page) |-> page[k].id]

\* ------------------------------------------------- filters.ts, pagination
DEFAULT_PAGE == 1       \* PAGINATION.DEFAULT_PAGE
PAGE_SIZE == 20         \* PAGINATION.PAGE_SIZE

\* The filters object of the UI without its query: every key undefined.
NoUIFilters ==
    [experienceLevel |-> NULL, employmentType |-> NULL, location |-> NULL,
     workMode |-> NULL, province |-> NULL, jobFunction |-> NULL,
     language |-> NULL, company |-> NULL, dateFrom |-> NULL, dateTo |-> NULL]

\* toSearchJobsRpcParams with the page taken as 0-indexed.
toSearchJobsRpcParams_ZeroIndexed(f, pagination) ==
    LET page == IF pagination = NULL \/ pagination[1].page = NULL
                THEN 1 ELSE pagination[1].page[1]
        pageSize == IF pagination = NULL \/ pagination[1].pageSize = NULL
                    THEN 20 ELSE pagination[1].pageSize[1]
        offset == page * pageSize
    IN  [search_query |-> f.query,
         p_limit |-> Val(pageSize),
         p_offset |-> Val(offset),
         p_experience_level |-> f.experienceLevel,
         p_employment_type |-> f.employmentType,
         p_location |-> f.location,
         p_work_mode |-> f.workMode,
         p_province |-> f.province,
         p_job_function |-> f.jobFunction,
         p_language |-> f.language,
         p_company |-> f.company,
         p_date_from |-> f.dateFrom,
         p_date_to |-> f.dateTo]

\* toSearchJobsRpcParams(filters, pagination): pagination is NULL or
\* <<[page, pageSize]>>, each of the two NULL or <<n>>. A key whose value is
\* undefined is not sent, so the procedure's DEFAULT applies to it.
toSearchJobsRpcParams(f, pagination) ==
    LET page == IF pagination = NULL \/ pagination[1].page = NULL
                THEN 1 ELSE pagination[1].page[1]
        pageSize == IF pagination = NULL \/ pagination[1].pageSize = NULL
                    THEN 20 ELSE pagination[1].pageSize[1]
        offset == (page - 1) * pageSize
    IN  [search_query |-> f.query,
         p_limit |-> Val(pageSize),
         p_offset |-> Val(offset),
         p_experience_level |-> f.experienceLevel,
         p_employment_type |-> f.employmentType,
         p_location |-> f.location,
         p_work_mode |-> f.workMode,
         p_province |-> f.province,
         p_job_function |-> f.jobFunction,
         p_language |-> f.language,
         p_company |-> f.company,
         p_date_from |-> f.dateFrom,
         p_date_to |-> f.dateTo]

\* Math.ceil(a / b) for a >= 0, b > 0
CeilDiv(a, b) == (a + b - 1) \div b

\* ------------------------------------------------------------ text helpers
\* String.prototype.trim on a sequence of tokens.
RECURSIVE TrimStart(_)
TrimStart(s) == IF s # <<>> /\ Head(s) = " " THEN TrimStart(Tail(s)) ELSE s

RECURSIVE TrimEnd(_)
TrimEnd(s) ==
    IF s # <<>> /\ s[Len(s)] = " " THEN TrimEnd(SubSeq(s, 1, Len(s) - 1)) ELSE s

trim(s) == TrimEnd(TrimStart(s))

\* Number.prototype.toString, as character codes.
RECURSIVE toString(_)
toString(n) ==
    IF n < 0 THEN <<45>> \o toString(0 - n)
    ELSE IF n < 10 THEN <<48 + n>>
    ELSE toString(n \div 10) \o <<48 + (n % 10)>>

IsDigit(c) == c >= 48 /\ c <= 57

RECURSIVE DigitsValue(_, _)
DigitsValue(s, acc) ==
    IF s # <<>> /\ IsDigit(Head(s))
    THEN DigitsValue(Tail(s), acc * 10 + (Head(s) - 48))
    ELSE acc

RECURSIVE SkipBlanks(_)
SkipBlanks(s) == IF s # <<>> /\ Head(s) = 32 THEN SkipBlanks(Tail(s)) ELSE s

\* parseInt(s, 10): NULL for NaN, <<n>> otherwise.
parseInt(s) ==
    LET t == SkipBlanks(s)
        signed == t # <<>> /\ (Head(t) = 45 \/ Head(t) = 43)
        u == IF signed THEN Tail(t) ELSE t
    IN  IF u = <<>> \/ ~IsDigit(Head(u)) THEN NULL
        ELSE IF signed /\ Head(t) = 45 THEN Val(0 - DigitsValue(u, 0))
        ELSE Val(DigitsValue(u, 0))

\* JSON.stringify(filters): the keys that are defined, with their values.
JSONstringify(f) == {<<k, f[k][1]>> : k \in {key \in DOMAIN f : f[key] # NULL}}

\* ------------------------------------------------------ useJobPagination
\* parseInt(searchParams.get('p') ?? '', 10) || PAGINATION.DEFAULT_PAGE
currentPage ==
    LET n == parseInt(IF urlP = NULL THEN <<>> ELSE urlP[1])
    IN  IF n = NULL \/ n[1] = 0 THEN DEFAULT_PAGE ELSE n[1]

\* apiPagination?.total ?? 0
totalJobs == IF apiPagination = NULL THEN 0 ELSE apiPagination[1].total

totalPages ==
    IF apiPagination = NULL THEN DEFAULT_PAGE
    ELSE CeilDiv(apiPagination[1].total, apiPagination[1].limit)

\* The 'p' parameter handlePageChange writes for newPage.
PageParam(newPage) ==
    IF newPage = DEFAULT_PAGE THEN NULL ELSE Val(toString(newPage))

\* The auto-select effect, run for a new apiJobs value js.
AutoSelect(js, selected) == IF Len(js) > 0 THEN Val(js[1]) ELSE selected

\* ----------------------------------------------------------- useJobSearch
\* search(filters, pagination) sends one search_jobs request.
Request(a, kind, f, page) ==
    [action |-> a, kind |-> kind, filters |-> f, page |-> page]

\* The pages the server may answer a request with.
Responses(req) ==
    search_jobs(jobs,
        toSearchJobsRpcParams(req.filters,
            Val([page |-> Val(req.page), pageSize |-> Val(PAGE_SIZE)])))

\* The pagination metadata rebuilt from a response: the total is read from
\* the first row, and is 0 when there is none.
ApiPaginationOf(r, req) ==
    LET total == IF r = <<>> THEN 0 ELSE r[1].total_count IN
    [total |-> total, limit |-> PAGE_SIZE,
     offset |-> (req.page - 1) * PAGE_SIZE,
     hasMore |-> req.page < CeilDiv(total, PAGE_SIZE)]

\* ------------------------------------------------------------- JobLayout
\* buildFilters(): the filters with the text of the search box as query.
buildFilters == filters @@ [query |-> searchQuery]

\* The re-search effect, run after a render in which filters or
\* appliedSearchQuery changed to f and applied: whether it calls search.
EffectSearches(f, applied) ==
    /\ applied # <<>>
    /\ prevFiltersJsonRef # <<JSONstringify(f)>>

\* ------------------------------------------------------------------ inputs
MaxActions == 2     \* user actions (searches, page changes, filter changes)
MaxPage == 2        \* handlePageChange is called with a page of 1..MaxPage

UIQueries == {<<>>, <<" ">>, <<"engineers">>, <<"the">>}

UIFilters ==
    {NoUIFilters,
     [NoUIFilters EXCEPT !.language = Val("spanish")],
     [NoUIFilters EXCEPT !.experienceLevel = Val("entry-level")]}

UITable ==
    <<JobRow(BaseJob, 1, MaxTime),
      JobRow([BaseJob EXCEPT !.language = "spanish"], 2, MaxTime),
      JobRow([BaseJob EXCEPT !.experience_level = "entry-level"], 3, 1)>>

\* ------------------------------------------------------------------ actions
\* The state of the page after load, before any user action.
PageLoaded ==
    /\ searchQuery = <<>>
    /\ appliedSearchQuery = <<>>
    /\ filters = NoUIFilters
    /\ prevFiltersJsonRef = <<>>
    /\ urlP = NULL
    /\ apiJobs = <<>>
    /\ apiPagination = NULL
    /\ selectedJobId = NULL
    /\ inflight = {}
    /\ actions = <<>>

\* No helper function has been called.
NoCall == fnArgs = NULL /\ fnResult = NULL

\* A dataset and the arguments of the call a caller is about to make.
Init ==
    /\ jobs \in Tables
    /\ call \in Calls
    /\ rows = <<>>
    /\ pages = <<>>
    /\ PageLoaded
    /\ NoCall

\* The caller invokes search_jobs with its arguments.
Search ==
    /\ pages = <<>>
    /\ \E r \in search_jobs(jobs, call) :
            /\ rows' = r
            /\ pages' = <<Ids(r)>>
    /\ UNCHANGED <<jobs, call>>
    /\ UNCHANGED <<uivars, fnvars>>

\* The caller fetches the next page: the same call with the offset advanced
\* by the limit, until a page comes back empty.
NextPage ==
    /\ pages # <<>>
    /\ rows # <<>>
    /\ LET p == Params(call)
           args == [call EXCEPT !.p_offset = Val(p.p_offset + p.p_limit)] IN
       \E r \in search_jobs(jobs, args) :
            /\ call' = args
            /\ rows' = r
            /\ pages' = Append(pages, Ids(r))
    /\ UNCHANGED jobs
    /\ UNCHANGED <<uivars, fnvars>>

Next == Search \/ NextPage

Spec == Init /\ [][Next]_vars

\* ------------------------------------------------------- JobLayout actions
InitUI ==
    /\ jobs = UITable
    /\ call = Args(<<>>, NULL, NULL, NULL, NoFilters)
    /\ rows = <<>>
    /\ pages = <<>>
    /\ PageLoaded
    /\ NoCall

\* Header onSearchChange: setSearchQuery
SetSearchQuery ==
    \E q \in UIQueries :
        /\ q # searchQuery
        /\ searchQuery' = q
        /\ UNCHANGED <<appliedSearchQuery, filters, prevFiltersJsonRef, urlP,
                       apiJobs, apiPagination, selectedJobId, inflight, actions>>
        /\ UNCHANGED <<dbvars, fnvars>>

\* handleSearch up to its await: resetToPageOne and the call of search.
HandleSearch ==
    /\ Len(actions) < MaxActions
    /\ trim(searchQuery) # <<>>
    /\ urlP' = NULL
    /\ inflight' = inflight \cup
          {Request(Len(actions) + 1, "search", buildFilters, DEFAULT_PAGE)}
    /\ actions' = Append(actions,
          [kind |-> "search", requests |-> 1, caught |-> FALSE])
    /\ UNCHANGED <<searchQuery, appliedSearchQuery, filters, prevFiltersJsonRef,
                   apiJobs, apiPagination, selectedJobId>>
    /\ UNCHANGED <<dbvars, fnvars>>

\* handleSearch after its await, the search having succeeded: the new page of
\* jobs, setSelectedJobId(null), setAppliedSearchQuery, and the effects of
\* the render that follows. The auto-select effect sees the new apiJobs
\* before or after the selection is cleared.
HandleSearchResumes ==
    \E req \in inflight, selectFirst \in BOOLEAN :
        /\ req.kind = "search"
        /\ \E r \in Responses(req) :
              /\ apiJobs' = Ids(r)
              /\ apiPagination' = Val(ApiPaginationOf(r, req))
              /\ selectedJobId' = IF selectFirst THEN AutoSelect(Ids(r), NULL) ELSE NULL
        /\ appliedSearchQuery' = req.filters.query
        /\ LET again == /\ req.filters.query # appliedSearchQuery
                        /\ EffectSearches(filters, req.filters.query)
           IN  IF again
               THEN /\ prevFiltersJsonRef' = <<JSONstringify(filters)>>
                    /\ inflight' = (inflight \ {req}) \cup
                          {Request(req.action, "effect",
                                   filters @@ [query |-> req.filters.query],
                                   DEFAULT_PAGE)}
                    /\ actions' = [actions EXCEPT ![req.action].requests = @ + 1]
               ELSE /\ inflight' = inflight \ {req}
                    /\ UNCHANGED <<prevFiltersJsonRef, actions>>
        /\ UNCHANGED <<searchQuery, filters, urlP>>
        /\ UNCHANGED <<dbvars, fnvars>>

\* RequestFails with the selection cleared before the request is awaited.
RequestFails_ClearsSelection ==
    \E req \in inflight :
        /\ inflight' = inflight \ {req}
        /\ actions' = IF req.kind = "effect" THEN actions
                      ELSE [actions EXCEPT ![req.action].caught = TRUE]
        /\ selectedJobId' = IF req.kind = "search" THEN NULL ELSE selectedJobId
        /\ UNCHANGED <<searchQuery, appliedSearchQuery, filters,
                       prevFiltersJsonRef, urlP, apiJobs, apiPagination>>
        /\ UNCHANGED <<dbvars, fnvars>>

\* A search request fails: handleSearch and handlePageChange catch and log
\* the error and return normally; the effect does not await its request.
RequestFails ==
    \E req \in inflight :
        /\ inflight' = inflight \ {req}
        /\ actions' = IF req.kind = "effect" THEN actions
                      ELSE [actions EXCEPT ![req.action].caught = TRUE]
        /\ UNCHANGED <<searchQuery, appliedSearchQuery, filters,
                       prevFiltersJsonRef, urlP, apiJobs, apiPagination,
                       selectedJobId>>
        /\ UNCHANGED <<dbvars, fnvars>>

\* handlePageChange(newPage) up to its await: the URL and the call of search.
HandlePageChange ==
    \E newPage \in 1..MaxPage :
        /\ Len(actions) < MaxActions
        /\ urlP' = PageParam(newPage)
        /\ inflight' = inflight \cup
              {Request(Len(actions) + 1, "page", buildFilters, newPage)}
        /\ actions' = Append(actions,
              [kind |-> "page", requests |-> 1, caught |-> FALSE])
        /\ UNCHANGED <<searchQuery, appliedSearchQuery, filters,
                       prevFiltersJsonRef, apiJobs, apiPagination, selectedJobId>>
        /\ UNCHANGED <<dbvars, fnvars>>

\* The answer to a request of handlePageChange or of the effect: the new
\* page of jobs and the auto-select effect.
ResponseArrives ==
    \E req \in inflight :
        /\ req.kind # "search"
        /\ \E r \in Responses(req) :
              /\ apiJobs' = Ids(r)
              /\ apiPagination' = Val(ApiPaginationOf(r, req))
              /\ selectedJobId' = AutoSelect(Ids(r), selectedJobId)
        /\ inflight' = inflight \ {req}
        /\ UNCHANGED <<searchQuery, appliedSearchQuery, filters,
                       prevFiltersJsonRef, urlP, actions>>
        /\ UNCHANGED <<dbvars, fnvars>>

\* toggleFilter / setFilter: a new filters object, and the re-search effect.
ChangeFilters ==
    \E f \in UIFilters :
        /\ Len(actions) < MaxActions
        /\ f # filters
        /\ filters' = f
        /\ IF EffectSearches(f, appliedSearchQuery)
           THEN /\ prevFiltersJsonRef' = <<JSONstringify(f)>>
                /\ inflight' = inflight \cup
                      {Request(Len(actions) + 1, "effect",
                               f @@ [query |-> appliedSearchQuery], DEFAULT_PAGE)}
                /\ actions' = Append(actions,
                      [kind |-> "filter", requests |-> 1, caught |-> FALSE])
           ELSE /\ actions' = Append(actions,
                      [kind |-> "filter", requests |-> 0, caught |-> FALSE])
                /\ UNCHANGED <<prevFiltersJsonRef, inflight>>
        /\ UNCHANGED <<searchQuery, appliedSearchQuery, urlP, apiJobs,
                       apiPagination, selectedJobId>>
        /\ UNCHANGED <<dbvars, fnvars>>

\* handleJobSelect
HandleJobSelect ==
    \E k \in DOMAIN apiJobs :
        /\ selectedJobId # Val(apiJobs[k])
        /\ selectedJobId' = Val(apiJobs[k])
        /\ UNCHANGED <<searchQuery, appliedSearchQuery, filters,
                       prevFiltersJsonRef, urlP, apiJobs, apiPagination,
                       inflight, actions>>
        /\ UNCHANGED <<dbvars, fnvars>>

NextUI ==
    \/ SetSearchQuery
    \/ HandleSearch
    \/ HandleSearchResumes
    \/ RequestFails
    \/ HandlePageChange
    \/ ResponseArrives
    \/ ChangeFilters
    \/ HandleJobSelect

SpecUI == InitUI /\ [][NextUI]_vars

\* ------------------------------------------- pagination and URL helpers
calculateOffset(page, pageSize) == (page - 1) * pageSize

\* URLSearchParams: a sequence of <<name, value>> pairs, values as character
\* codes. get returns the first value of the name, NULL when there is none.
get(params, name) ==
    LET ks == {k \in DOMAIN params : params[k][1] = name} IN
    IF ks = {} THEN NULL
    ELSE Val(params[CHOOSE k \in ks : \A m \in ks : k <= m][2])

\* delete removes every pair of the name.
RECURSIVE delete(_, _)
delete(params, name) ==
    IF params = <<>> THEN <<>>
    ELSE IF Head(params)[1] = name THEN delete(Tail(params), name)
    ELSE <<Head(params)>> \o delete(Tail(params), name)

\* set gives the first pair of the name the value and removes the others, or
\* appends the pair when the name is absent.
set(params, name, value) ==
    LET ks == {k \in DOMAIN params : params[k][1] = name} IN
    IF ks = {} THEN Append(params, <<name, value>>)
    ELSE LET first == CHOOSE k \in ks : \A m \in ks : k <= m IN
         SubSeq(params, 1, first - 1) \o <<<<name, value>>>>
             \o delete(SubSeq(params, first + 1, Len(params)), name)

\* urlParamsToPage without the check that the page is at least 1.
urlParamsToPage_NoClamp(params) ==
    LET pageStr == get(params, "p") IN
    IF pageStr = NULL \/ pageStr[1] = <<>> THEN DEFAULT_PAGE
    ELSE LET page == parseInt(pageStr[1]) IN
         IF page = NULL THEN DEFAULT_PAGE ELSE page[1]

urlParamsToPage(params) ==
    LET pageStr == get(params, "p") IN
    IF pageStr = NULL \/ pageStr[1] = <<>> THEN DEFAULT_PAGE
    ELSE LET page == parseInt(pageStr[1]) IN
         IF page = NULL \/ page[1] < 1 THEN DEFAULT_PAGE ELSE page[1]

\* existingParams is NULL when the argument is omitted.
paginationToURLParams(page, existingParams) ==
    LET params == IF existingParams = NULL THEN <<>> ELSE existingParams[1] IN
    IF page = DEFAULT_PAGE THEN delete(params, "p")
    ELSE set(params, "p", toString(page))

\* ------------------------------------------------- inputs of the helpers
MaxFnPage == 12     \* pages passed to the helpers range over 1..MaxFnPage
MaxPageSize == 3    \* page sizes passed range over 1..MaxPageSize, and 20

\* Values of 'p' in a URL: '', 'abc', '0', '-1', '-12', '1', '2', '12',
\* '2abc', ' 3', '+2', '1.5', '007'.
PStrings ==
    {<<>>, <<97, 98, 99>>, <<48>>, <<45, 49>>, <<45, 49, 50>>, <<49>>, <<50>>,
     <<49, 50>>, <<50, 97, 98, 99>>, <<32, 51>>, <<43, 50>>, <<49, 46, 53>>,
     <<48, 48, 55>>}

\* Pairs of a query string: 'p' with one of two values, and 'q=e', 'lang=es'.
URLPairs ==
    {<<"p", <<50>>>>, <<"p", <<97, 98, 99>>>>, <<"q", <<101>>>>,
     <<"lang", <<101, 115>>>>}

URLParamSets ==
    {<<>>} \cup {<<a>> : a \in URLPairs}
           \cup {<<a, b>> : a \in URLPairs, b \in URLPairs}
           \cup {<<<<"p", v>>>> : v \in PStrings}
           \cup {<<<<"q", <<101>>>>, <<"p", v>>>> : v \in PStrings}

Paginations ==
    {NULL} \cup
    {Val([page |-> a, pageSize |-> b]) :
        a \in Opt(1..MaxFnPage), b \in Opt((1..MaxPageSize) \cup {20})}

FnCalls ==
    {[fn |-> "toSearchJobsRpcParams", filters |-> f @@ [query |-> <<"engineers">>],
      pagination |-> pg] : f \in UIFilters, pg \in Paginations}
    \cup {[fn |-> "urlParamsToPage", params |-> ps] : ps \in URLParamSets}
    \cup {[fn |-> "paginationToURLParams", page |-> n, existingParams |-> e] :
            n \in 1..MaxFnPage, e \in Opt(URLParamSets)}
    \cup {[fn |-> "navigate", p |-> v] : v \in Opt(PStrings)}

\* ------------------------------------------------------ helper actions
InitUtil ==
    /\ jobs = UITable
    /\ call = Args(<<>>, NULL, NULL, NULL, NoFilters)
    /\ rows = <<>>
    /\ pages = <<>>
    /\ PageLoaded
    /\ fnArgs \in {Val(c) : c \in FnCalls}
    /\ fnResult = NULL

Call_toSearchJobsRpcParams ==
    /\ fnResult = NULL
    /\ fnArgs[1].fn = "toSearchJobsRpcParams"
    /\ fnResult' = Val(toSearchJobsRpcParams(fnArgs[1].filters, fnArgs[1].pagination))
    /\ UNCHANGED <<dbvars, uivars, fnArgs>>

Call_urlParamsToPage ==
    /\ fnResult = NULL
    /\ fnArgs[1].fn = "urlParamsToPage"
    /\ fnResult' = Val(urlParamsToPage(fnArgs[1].params))
    /\ UNCHANGED <<dbvars, uivars, fnArgs>>

Call_paginationToURLParams ==
    /\ fnResult = NULL
    /\ fnArgs[1].fn = "paginationToURLParams"
    /\ fnResult' = Val(paginationToURLParams(fnArgs[1].page, fnArgs[1].existingParams))
    /\ UNCHANGED <<dbvars, uivars, fnArgs>>

\* The page is opened at a URL with the given 'p'; useJobPagination renders.
Navigate ==
    /\ fnResult = NULL
    /\ fnArgs[1].fn = "navigate"
    /\ urlP' = fnArgs[1].p
    /\ fnResult' = Val(currentPage')
    /\ UNCHANGED <<searchQuery, appliedSearchQuery, filters, prevFiltersJsonRef,
                   apiJobs, apiPagination, selectedJobId, inflight, actions>>
    /\ UNCHANGED <<dbvars, fnArgs>>

NextUtil ==
    \/ Call_toSearchJobsRpcParams
    \/ Call_urlParamsToPage
    \/ Call_paginationToURLParams
    \/ Navigate

SpecUtil == InitUtil /\ [][NextUtil]_vars

\* ===================================================================== claims
\* What the claims say of a call, stated apart from the procedure's body.

Min(a, b) == IF a < b THEN a ELSE b
Max(a, b) == IF a > b THEN a ELSE b

Called == pages # <<>>

\* The language a call asks for: 'english' when p_language is not passed.
RequestedLanguage(args) ==
    IF args.p_language = NULL THEN "english" ELSE args.p_language[1]

\* The search vector of job j matches the query of the call.
QueryMatches(j, args) ==
    TsMatch(j.search_vector,
            plainto_tsquery(RequestedLanguage(args), args.search_query))

\* Two characters, and two texts, that differ at most in letter case.
SameCharIgnoringCase(c, d) ==
    \/ c = d
    \/ c >= 65 /\ c <= 90 /\ d = c + 32
    \/ d >= 65 /\ d <= 90 /\ c = d + 32

SameIgnoringCase(a, b) ==
    /\ Len(a) = Len(b)
    /\ \A i \in 1..Len(a) : SameCharIgnoringCase(a[i], b[i])

\* x (a job row or a returned row, with company name cname) satisfies every
\* equality filter the call supplies.
SatisfiesEquality(x, cname, args) ==
    /\ args.p_experience_level # NULL => x.experience_level = args.p_experience_level[1]
    /\ args.p_employment_type # NULL => x.employment_type = args.p_employment_type[1]
    /\ args.p_location # NULL => x.location = args.p_location[1]
    /\ args.p_work_mode # NULL => x.work_mode = args.p_work_mode[1]
    /\ args.p_province # NULL => x.province = args.p_province[1]
    /\ args.p_job_function # NULL => x.job_function = args.p_job_function[1]
    /\ args.p_company # NULL => SameIgnoringCase(cname, args.p_company[1])

SatisfiesDates(x, args) ==
    /\ args.p_date_from # NULL => x.created_at >= args.p_date_from[1]
    /\ args.p_date_to # NULL => x.created_at <= args.p_date_to[1]

\* Job i matches the call but for the date range.
OtherwiseMatching(i, args) ==
    /\ jobs[i].is_active
    /\ QueryMatches(jobs[i], args)
    /\ jobs[i].language = RequestedLanguage(args)
    /\ SatisfiesEquality(jobs[i], companies[jobs[i].company_id], args)

\* The jobs that satisfy all the predicates of the call.
Matching(args) ==
    {i \in DOMAIN jobs : OtherwiseMatching(i, args) /\ SatisfiesDates(jobs[i], args)}

RowIds == {rows[k].id : k \in DOMAIN rows}

\* C1: every row search_jobs returns is an active job of the table whose
\* search vector matches the query, whose language is p_language and which
\* satisfies every supplied filter: the six enum filters by equality, the
\* company by name, created_at >= p_date_from and <= p_date_to.
C1_ReturnedRowsSatisfyFilters ==
    Called =>
        \A k \in DOMAIN rows :
            /\ rows[k].id \in DOMAIN jobs
            /\ rows[k].is_active
            /\ QueryMatches(jobs[rows[k].id], call)
            /\ rows[k].language = RequestedLanguage(call)
            /\ SatisfiesEquality(rows[k], rows[k].company_name, call)
            /\ SatisfiesDates(rows[k], call)

\* A call with two filters supplied returned a row and left out an active
\* job with a matching search vector.
C1_Witness ==
    /\ Called
    /\ rows # <<>>
    /\ call.p_date_from # NULL
    /\ call.p_employment_type # NULL
    /\ \E i \in DOMAIN jobs :
          /\ i \notin RowIds
          /\ jobs[i].is_active
          /\ QueryMatches(jobs[i], call)

\* C2: on a non-empty page, total_count is the same on every row and is the
\* number of jobs of the whole table that satisfy the predicates of the call,
\* a number that does not depend on p_limit and p_offset.
C2_TotalCount ==
    (Called /\ rows # <<>>) =>
        \A k \in DOMAIN rows : rows[k].total_count = Cardinality(Matching(call))

\* A page at a positive offset that holds fewer rows than match.
C2_Witness ==
    /\ Called
    /\ rows # <<>>
    /\ Params(call).p_offset > 0
    /\ Len(rows) + Params(call).p_offset < rows[1].total_count

RECURSIVE Concat(_)
Concat(pp) == IF pp = <<>> THEN <<>> ELSE Head(pp) \o Concat(Tail(pp))

\* The pages were fetched from offset 0 on, and the last one came back empty.
WalkFromZeroDone ==
    /\ Called
    /\ rows = <<>>
    /\ Params(call).p_limit >= 1
    /\ Params(call).p_offset = (Len(pages) - 1) * Params(call).p_limit

\* C3: the pages at offsets 0, L, 2L, ... up to the first empty page hold
\* every matching job exactly once.
C3_PaginationComplete ==
    WalkFromZeroDone =>
        LET all == Concat(pages) IN
        /\ \A a, b \in DOMAIN all : a # b => all[a] # all[b]
        /\ {all[a] : a \in DOMAIN all} = Matching(call)

\* C4: with N matching active jobs, a call with limit L and offset O returns
\* min(L, max(0, N - O)) rows; inactive jobs are in no row and not counted in
\* total_count.
C4_RowCount ==
    Called =>
        LET N == Cardinality(Matching(call))
            L == Params(call).p_limit
            O == Params(call).p_offset
        IN  /\ Len(rows) = Min(L, Max(0, N - O))
            /\ \A k \in DOMAIN rows :
                  rows[k].is_active /\ rows[k].total_count = N

\* Two active matching jobs and an inactive job that matches otherwise,
\* limit 1: the first page holds 1 row with total_count 2.
C4_Witness ==
    /\ Called
    /\ Len(pages) = 1
    /\ Params(call).p_limit = 1
    /\ Params(call).p_offset = 0
    /\ Len(rows) = 1
    /\ rows[1].total_count = 2
    /\ \E i \in DOMAIN jobs :
          /\ ~jobs[i].is_active
          /\ QueryMatches(jobs[i], call)
          /\ jobs[i].language = RequestedLanguage(call)
          /\ SatisfiesEquality(jobs[i], companies[jobs[i].company_id], call)
          /\ SatisfiesDates(jobs[i], call)

\* The rows of a page come in descending created_at.
Descending(page) ==
    \A k \in 1..(Len(page) - 1) : page[k].created_at >= page[k + 1].created_at

\* Every row of the latest page is at least as new as every row of any page
\* of the same query, filters and limit at one of the given offsets. A page
\* at an offset of Len(jobs) or more holds no row, so the offsets below
\* Len(jobs) are all there is to compare with.
NewerThanPagesAt(offsets) ==
    \A o2 \in offsets :
        \A r2 \in search_jobs(jobs, [call EXCEPT !.p_offset = Val(o2)]) :
            \A a \in DOMAIN rows, b \in DOMAIN r2 :
                rows[a].created_at >= r2[b].created_at

\* C5 as stated: the rows of a page are in descending created_at, and every
\* row of the page at offset O is at least as new as every row of any page
\* at a larger offset.
C5_Original ==
    Called =>
        /\ Descending(rows)
        /\ NewerThanPagesAt((Params(call).p_offset + 1)..(Len(jobs) - 1))

\* C5 amended: the rows of a page are in descending created_at, and every
\* row of the page at offset O with limit L is at least as new as every row
\* of any page at an offset of at least O + L.
C5_OrderedPages ==
    Called =>
        /\ Descending(rows)
        /\ NewerThanPagesAt((Params(call).p_offset + Params(call).p_limit)
                               ..(Len(jobs) - 1))

\* A first page of two rows, the first strictly newer than the second,
\* followed by a second page that is not empty.
C5_Witness ==
    /\ Len(pages) = 2
    /\ Len(pages[1]) = 2
    /\ jobs[pages[1][1]].created_at > jobs[pages[1][2]].created_at
    /\ rows # <<>>

\* C6: no returned row has a language other than the requested p_language;
\* a call that does not pass p_language returns english jobs only.
C6_LanguageIsolation ==
    Called =>
        \A k \in DOMAIN rows :
            /\ call.p_language # NULL => rows[k].language = call.p_language[1]
            /\ call.p_language = NULL => rows[k].language = "english"

\* A call without p_language returned a row while the table holds an active
\* spanish job whose search vector matches the query.
C6_Witness ==
    /\ Called
    /\ call.p_language = NULL
    /\ rows # <<>>
    /\ \E i \in DOMAIN jobs :
          /\ jobs[i].language = "spanish"
          /\ jobs[i].is_active
          /\ QueryMatches(jobs[i], call)
          /\ i \notin RowIds

\* The latest page is the whole result set.
WholeResult ==
    /\ Called
    /\ Params(call).p_offset = 0
    /\ Len(rows) < Params(call).p_limit

\* C7: an otherwise matching job with created_at = p_date_from, or with
\* created_at = p_date_to, is in the result set; one with created_at before
\* p_date_from or after p_date_to is not.
C7_DateRangeInclusive ==
    Called =>
        \A i \in DOMAIN jobs :
            OtherwiseMatching(i, call) =>
                LET t == jobs[i].created_at
                    from == call.p_date_from
                    to == call.p_date_to
                IN  /\ (WholeResult /\ from # NULL /\ t = from[1]
                          /\ (to # NULL => t <= to[1])) => i \in RowIds
                    /\ (WholeResult /\ to # NULL /\ t = to[1]
                          /\ (from # NULL => t >= from[1])) => i \in RowIds
                    /\ (from # NULL /\ t < from[1]) => i \notin RowIds
                    /\ (to # NULL /\ t > to[1]) => i \notin RowIds

\* A call with both bounds returned a job created at p_date_from, a job
\* created at p_date_to, and left out an otherwise matching job.
C7_Witness ==
    /\ Called
    /\ call.p_date_from # NULL
    /\ call.p_date_to # NULL
    /\ \E k \in DOMAIN rows : rows[k].created_at = call.p_date_from[1]
    /\ \E k \in DOMAIN rows : rows[k].created_at = call.p_date_to[1]
    /\ \E i \in DOMAIN jobs : OtherwiseMatching(i, call) /\ i \notin RowIds

CompanyTexts == {OpenAI, openai, OPENAI, Acme}

\* C8: a call whose p_company differs from that of the latest call only in
\* letter case, all else equal, has the same possible results (rows and
\* total_count), the result of the latest call among them.
C8_CompanyCaseInsensitive ==
    (Called /\ call.p_company # NULL) =>
        \A c2 \in CompanyTexts :
            SameIgnoringCase(c2, call.p_company[1]) =>
                LET other == search_jobs(jobs, [call EXCEPT !.p_company = Val(c2)])
                IN  /\ other = search_jobs(jobs, call)
                    /\ rows \in other

\* A call with p_company 'openai' returned a job of a company whose name is
\* spelled in another case.
C8_Witness ==
    /\ Called
    /\ call.p_company = Val(openai)
    /\ rows # <<>>
    /\ rows[1].company_name # openai

\* C9: when no job satisfies the predicates of the call, search_jobs returns
\* the empty page, and nothing else, and the total the caller reads from
\* that response is 0.
C9_NoMatchEmptyPage ==
    (Called /\ Matching(call) = {}) =>
        /\ search_jobs(jobs, call) = {<<>>}
        /\ rows = <<>>
        /\ ApiPaginationOf(rows, Request(0, "search", NoUIFilters, DEFAULT_PAGE)).total = 0

\* A call at offset 0 over a table that holds jobs, none of them matching.
C9_Witness ==
    /\ Called
    /\ jobs # <<>>
    /\ Matching(call) = {}
    /\ Params(call).p_offset = 0
    /\ rows = <<>>

\* C10: every handleSearch and every handlePageChange has caused exactly one
\* search_jobs request.
C10_OneRequestPerAction ==
    \A a \in DOMAIN actions :
        actions[a].kind \in {"search", "page"} => actions[a].requests = 1

\* The page and page size a call of toSearchJobsRpcParams stands for: 1 and
\* 20 where the pagination, or the field, is omitted.
PageOf(pagination) ==
    IF pagination = NULL THEN 1
    ELSE IF pagination[1].page = NULL THEN 1 ELSE pagination[1].page[1]

PageSizeOf(pagination) ==
    IF pagination = NULL THEN 20
    ELSE IF pagination[1].pageSize = NULL THEN 20 ELSE pagination[1].pageSize[1]

Returned(fn) == fnArgs # NULL /\ fnArgs[1].fn = fn /\ fnResult # NULL

\* C11: toSearchJobsRpcParams sends p_limit = pageSize and p_offset =
\* (page - 1) * pageSize, with page 1 and pageSize 20 where omitted, so that
\* a call without pagination asks for the procedure's defaults; the offset
\* is calculateOffset(page, pageSize), and is a non-negative multiple of
\* pageSize.
C11_OffsetFromPage ==
    Returned("toSearchJobsRpcParams") =>
        LET page == PageOf(fnArgs[1].pagination)
            pageSize == PageSizeOf(fnArgs[1].pagination)
            sent == fnResult[1]
        IN  /\ sent.p_limit = <<pageSize>>
            /\ sent.p_offset = <<(page - 1) * pageSize>>
            /\ sent.p_offset[1] = calculateOffset(page, pageSize)
            /\ fnArgs[1].pagination = NULL =>
                  /\ sent.p_limit[1] = DefaultLimit
                  /\ sent.p_offset[1] = DefaultOffset
                  /\ Params(sent).p_limit = Params([sent EXCEPT !.p_limit = NULL]).p_limit
                  /\ Params(sent).p_offset = Params([sent EXCEPT !.p_offset = NULL]).p_offset
            /\ (page >= 1 /\ pageSize >= 1) =>
                  /\ sent.p_offset[1] >= 0
                  /\ sent.p_offset[1] % pageSize = 0

\* A call for page 3 with the page size omitted: offset 40.
C11_Witness ==
    /\ Returned("toSearchJobsRpcParams")
    /\ fnArgs[1].pagination # NULL
    /\ fnArgs[1].pagination[1].page = <<3>>
    /\ fnArgs[1].pagination[1].pageSize = NULL
    /\ fnResult[1].p_offset = <<40>>

\* C12: currentPage is an integer of at least 1, whatever 'p' holds.
C12_CurrentPageAtLeastOne == currentPage \in Nat /\ currentPage >= 1

\* The number JavaScript's parseInt(v, 10) gives for each text of PStrings:
\* <<>> stands for NaN.
ParsedAs(v) ==
    CASE v = <<>> -> <<>>
      [] v = <<97, 98, 99>> -> <<>>
      [] v = <<48>> -> <<0>>
      [] v = <<45, 49>> -> <<0 - 1>>
      [] v = <<45, 49, 50>> -> <<0 - 12>>
      [] v = <<49>> -> <<1>>
      [] v = <<50>> -> <<2>>
      [] v = <<49, 50>> -> <<12>>
      [] v = <<50, 97, 98, 99>> -> <<2>>
      [] v = <<32, 51>> -> <<3>>
      [] v = <<43, 50>> -> <<2>>
      [] v = <<49, 46, 53>> -> <<1>>
      [] v = <<48, 48, 55>> -> <<7>>

\* The decimal digits of a page of 1..99.
Decimal(n) == IF n < 10 THEN <<48 + n>> ELSE <<48 + (n \div 10), 48 + (n % 10)>>

\* The pairs of params whose name is not 'p', in order.
Others(params) == SelectSeq(params, LAMBDA e : e[1] # "p")

\* The values of 'p' in params, in order.
PValues(params) ==
    LET ps == SelectSeq(params, LAMBDA e : e[1] = "p") IN
    [k \in DOMAIN ps |-> ps[k][2]]

\* C13: urlParamsToPage returns 1 when 'p' is absent, not a number or less
\* than 1, and the parsed page otherwise; paginationToURLParams removes 'p'
\* for page 1 and sets it to the page otherwise, leaves every other
\* parameter as it was, and urlParamsToPage of its result is the page.
C13_UrlPageRoundTrip ==
    /\ Returned("urlParamsToPage") =>
          LET ps == PValues(fnArgs[1].params)
              n == IF ps = <<>> THEN <<>> ELSE ParsedAs(ps[1])
          IN  fnResult[1] = IF n = <<>> \/ n[1] < 1 THEN 1 ELSE n[1]
    /\ Returned("paginationToURLParams") =>
          LET page == fnArgs[1].page
              existing == IF fnArgs[1].existingParams = NULL THEN <<>>
                          ELSE fnArgs[1].existingParams[1]
              result == fnResult[1]
          IN  /\ page = 1 => PValues(result) = <<>>
              /\ page # 1 => PValues(result) = <<Decimal(page)>>
              /\ Others(result) = Others(existing)
              /\ urlParamsToPage(result) = page

\* paginationToURLParams was called for page 12 over 'p=abc&q=e' and gave
\* 'p=12&q=e'.
C13_Witness ==
    /\ Returned("paginationToURLParams")
    /\ fnArgs[1].page = 12
    /\ fnArgs[1].existingParams = <<(<<(<<"p", <<97, 98, 99>>>>), (<<"q", <<101>>>>)>>)>>
    /\ fnResult[1] = <<(<<"p", <<49, 50>>>>), (<<"q", <<101>>>>)>>

\* The page of the results on display: the page whose request produced the
\* current jobs, read back from the offset and limit of its response.
DisplayedPage == apiPagination[1].offset \div apiPagination[1].limit + 1

\* C14: whenever a response has been applied and no request is in flight,
\* currentPage is the page of the results on display.
C14_PageShownIsPageDisplayed ==
    (apiPagination # NULL /\ inflight = {}) => currentPage = DisplayedPage

\* C15: once a search has succeeded, every request handlePageChange issues
\* carries the query of the last successful search, whatever the search box
\* holds.
C15_PageChangeKeepsAppliedQuery ==
    [][\A req \in inflight' \ inflight :
          (req.kind = "page" /\ appliedSearchQuery # <<>>)
              => req.filters.query = appliedSearchQuery]_vars

\* C16: when a response brings a non-empty list of jobs and no job is
\* selected, the first job of the list becomes the selected one; when a job
\* is selected, the auto-select leaves the selection as it is.
C16_AutoSelectKeepsSelection ==
    [][(ResponseArrives /\ apiJobs' # <<>>) =>
          /\ selectedJobId = NULL => selectedJobId' = <<apiJobs'[1]>>
          /\ selectedJobId # NULL => selectedJobId' = selectedJobId]_vars

\* The search request of a handleSearch fails in this step.
SearchFails ==
    /\ RequestFails
    /\ \E req \in inflight \ inflight' : req.kind = "search"

====
